---- MODULE Spec2Model ----
(***************************************************************************)
(* A model of rename_unity_objects.py: the UnityObjectRenamer that reads a *)
(* CSV table of (Type, Entity ID) rows and rewrites the "m_Name:" lines of *)
(* a Unity scene file.                                                     *)
(*                                                                         *)
(* Text is modelled as a sequence of characters.  Two specifications:      *)
(*   RenameSpec  one direct call of rename_gameobject on a drawn buffer,   *)
(*               old token and new token, followed by a second call with   *)
(*               the same tokens on the returned buffer;                   *)
(*   Spec        a whole run of main(): load_csv_data, process_renaming    *)
(*               (read, one rename per row, write back) and sys.exit.      *)
(***************************************************************************)
EXTENDS Integers, Sequences, FiniteSets

\* ------------------------------------------------------------------
\* Characters.  CR and LF are the two line-break characters; the
\* letters stand for the characters of names.
SP == " "
TAB == "<TAB>"
CR == "<CR>"
LF == "<LF>"
SQ == "'"
DQ == "<DQ>"

\* The literal key text that starts every pattern: two spaces, m_Name,
\* a colon and a space.
NAME_KEY == <<SP, SP, "m", "_", "N", "a", "m", "e", ":", SP>>

\* ------------------------------------------------------------------
\* Bounds of the model.
MaxLines == 2
MaxRows == 3
MaxDocLines == 2

\* ------------------------------------------------------------------
\* Python string primitives.

Whitespace == {SP, TAB, CR, LF}

RECURSIVE lstrip(_)
lstrip(s) ==
    IF s # <<>> /\ Head(s) \in Whitespace THEN lstrip(Tail(s)) ELSE s

RECURSIVE rstrip(_)
rstrip(s) ==
    IF s # <<>> /\ s[Len(s)] \in Whitespace
    THEN rstrip(SubSeq(s, 1, Len(s) - 1))
    ELSE s

\* str.strip(): leading and trailing whitespace removed.
strip(s) == rstrip(lstrip(s))

\* The positions at which p occurs in s (1-based).
Occ(s, p) ==
    {k \in 1..(Len(s) + 1) :
        k + Len(p) - 1 <= Len(s) /\ SubSeq(s, k, k + Len(p) - 1) = p}

\* `p in s`.
Contains(s, p) == Occ(s, p) # {}

\* s.find(p), 1-based; 0 when p is absent.
Find(s, p) ==
    IF Occ(s, p) = {} THEN 0
    ELSE CHOOSE k \in Occ(s, p) : \A j \in Occ(s, p) : k <= j

\* s.count(c) for a single character c.
Count(s, c) == Cardinality({k \in 1..Len(s) : s[k] = c})

\* A replace that rewrites the first occurrence only, s.replace(old, new, 1).
replace_first(s, old, new) ==
    IF Find(s, old) = 0 THEN s
    ELSE SubSeq(s, 1, Find(s, old) - 1) \o new
         \o SubSeq(s, Find(s, old) + Len(old), Len(s))

\* s.replace(old, new) for a non-empty old: every non-overlapping
\* occurrence, scanning from the left.  (Every pattern the renamer passes
\* starts with NAME_KEY, so old is never empty.)
RECURSIVE replace(_, _, _)
replace(s, old, new) ==
    IF Len(s) < Len(old) \/ old = <<>> THEN s
    ELSE IF SubSeq(s, 1, Len(old)) = old
         THEN new \o replace(SubSeq(s, Len(old) + 1, Len(s)), old, new)
         ELSE <<Head(s)>> \o replace(Tail(s), old, new)

\* ------------------------------------------------------------------
\* rename_gameobject.

\* The eight search patterns, in the order of the list in the code.
search_patterns(old_name_stripped) ==
    << NAME_KEY \o old_name_stripped \o <<CR, LF>>,
       NAME_KEY \o old_name_stripped \o <<LF>>,
       NAME_KEY \o <<SQ>> \o old_name_stripped \o <<SP, SQ, CR, LF>>,
       NAME_KEY \o <<SQ>> \o old_name_stripped \o <<SP, SQ, LF>>,
       NAME_KEY \o <<SQ>> \o old_name_stripped \o <<SQ, CR, LF>>,
       NAME_KEY \o <<SQ>> \o old_name_stripped \o <<SQ, LF>>,
       NAME_KEY \o <<DQ>> \o old_name_stripped \o <<DQ, CR, LF>>,
       NAME_KEY \o <<DQ>> \o old_name_stripped \o <<DQ, LF>> >>

\* The eight replacement patterns; new_name is inserted as given.
replacement_patterns(new_name) ==
    << NAME_KEY \o new_name \o <<CR, LF>>,
       NAME_KEY \o new_name \o <<LF>>,
       NAME_KEY \o <<SQ>> \o new_name \o <<SP, SQ, CR, LF>>,
       NAME_KEY \o <<SQ>> \o new_name \o <<SP, SQ, LF>>,
       NAME_KEY \o <<SQ>> \o new_name \o <<SQ, CR, LF>>,
       NAME_KEY \o <<SQ>> \o new_name \o <<SQ, LF>>,
       NAME_KEY \o <<DQ>> \o new_name \o <<DQ, CR, LF>>,
       NAME_KEY \o <<DQ>> \o new_name \o <<DQ, LF>> >>

\* The index of the first search pattern found in the content, 0 if none:
\* the loop over zip(search_patterns, replacement_patterns) up to its break.
first_match(scene_content, old_name) ==
    LET pats == search_patterns(strip(old_name))
        hits == {i \in 1..8 : Contains(scene_content, pats[i])}
    IN  IF hits = {} THEN 0
        ELSE CHOOSE i \in hits : \A j \in hits : i <= j

\* The result of a call: (modified_content, modified) and the reported
\* line number (0 when nothing was found).
RenameResult(content, modified, line_num) ==
    [content |-> content, modified |-> modified, line_num |-> line_num]

\* A renamer that matches the key and the token but not the line ending.
rename_gameobject_prefix(scene_content, old_name, new_name) ==
    LET pat == NAME_KEY \o strip(old_name)
    IN  IF Contains(scene_content, pat)
        THEN RenameResult(replace(scene_content, pat, NAME_KEY \o new_name),
                          TRUE,
                          Count(SubSeq(scene_content, 1, Find(scene_content, pat) - 1), LF) + 1)
        ELSE RenameResult(scene_content, FALSE, 0)

\* A renamer that rewrites only the first occurrence of the pattern.
rename_gameobject_first(scene_content, old_name, new_name) ==
    LET i == first_match(scene_content, old_name)
        pat == search_patterns(strip(old_name))[i]
    IN  IF i = 0 THEN RenameResult(scene_content, FALSE, 0)
        ELSE RenameResult(
                 replace_first(scene_content, pat, replacement_patterns(new_name)[i]),
                 TRUE,
                 Count(SubSeq(scene_content, 1, Find(scene_content, pat) - 1), LF) + 1)

\* A renamer that goes on through all eight patterns instead of breaking
\* at the first one found.
RECURSIVE rename_all_forms(_, _, _, _)
rename_all_forms(content, old_name, new_name, i) ==
    IF i > 8 THEN content
    ELSE rename_all_forms(
             replace(content, search_patterns(strip(old_name))[i],
                     replacement_patterns(new_name)[i]),
             old_name, new_name, i + 1)

rename_gameobject_nobreak(scene_content, old_name, new_name) ==
    LET i == first_match(scene_content, old_name)
        pat == search_patterns(strip(old_name))[i]
    IN  IF i = 0 THEN RenameResult(scene_content, FALSE, 0)
        ELSE RenameResult(
                 rename_all_forms(scene_content, old_name, new_name, 1),
                 TRUE,
                 Count(SubSeq(scene_content, 1, Find(scene_content, pat) - 1), LF) + 1)

\* A renamer whose success flag is set outside the `if`.
rename_gameobject_flag(scene_content, old_name, new_name) ==
    LET i == first_match(scene_content, old_name)
    IN  RenameResult(
            IF i = 0 THEN scene_content
            ELSE replace(scene_content, search_patterns(strip(old_name))[i],
                         replacement_patterns(new_name)[i]),
            TRUE, 1)

\* rename_gameobject(scene_content, old_name, new_name): the first search
\* pattern found in the content is replaced everywhere by its replacement
\* pattern; the line number reported is that of its first occurrence.
rename_gameobject(scene_content, old_name, new_name) ==
    LET i == first_match(scene_content, old_name)
        pat == search_patterns(strip(old_name))[i]
    IN  IF i = 0 THEN RenameResult(scene_content, FALSE, 0)
        ELSE RenameResult(
                 replace(scene_content, pat, replacement_patterns(new_name)[i]),
                 TRUE,
                 Count(SubSeq(scene_content, 1, Find(scene_content, pat) - 1), LF) + 1)

\* ------------------------------------------------------------------
\* File input and output in text mode (open(path, 'r') and open(path, 'w')
\* with the default newline handling).

\* f.read() in text mode: universal newlines, CR LF and a lone CR both
\* arrive as LF.
RECURSIVE read_text(_)
read_text(bytes) ==
    IF bytes = <<>> THEN <<>>
    ELSE IF Head(bytes) = CR
         THEN IF Len(bytes) >= 2 /\ bytes[2] = LF
              THEN <<LF>> \o read_text(SubSeq(bytes, 3, Len(bytes)))
              ELSE <<LF>> \o read_text(Tail(bytes))
         ELSE <<Head(bytes)>> \o read_text(Tail(bytes))

\* f.write() in text mode: every LF is written as os.linesep.
RECURSIVE write_text(_, _)
write_text(text, linesep) ==
    IF text = <<>> THEN <<>>
    ELSE IF Head(text) = LF
         THEN linesep \o write_text(Tail(text), linesep)
         ELSE <<Head(text)>> \o write_text(Tail(text), linesep)

\* ------------------------------------------------------------------
\* load_csv_data: the rows kept, in order.  A raw row is the three fields
\* the loader requires; an absent field reads as the empty string.
\* (Building, Floor and Room are copied and never used by the renamer.)

RowData(name, type, entity_id) ==
    [name |-> name, type |-> type, entity_id |-> entity_id]

\* The dictionary appended for a row that passes the checks.
load_row(row) == RowData(strip(row.name), strip(row.type), strip(row.entity_id))

\* `row.get('Name') and row.get('Type') and row.get('Entity ID')`.
row_valid(row) == row.name # <<>> /\ row.type # <<>> /\ row.entity_id # <<>>

RECURSIVE load_rows(_)
load_rows(rows) ==
    IF rows = <<>> THEN <<>>
    ELSE IF row_valid(Head(rows))
         THEN <<load_row(Head(rows))>> \o load_rows(Tail(rows))
         ELSE load_rows(Tail(rows))

\* ------------------------------------------------------------------
\* Inputs.

EntryLine(name, quote, eol) ==
    NAME_KEY
    \o (CASE quote = "none" -> name
          [] quote = "sqsp" -> <<SQ>> \o name \o <<SP, SQ>>
          [] quote = "sq" -> <<SQ>> \o name \o <<SQ>>
          [] quote = "dq" -> <<DQ>> \o name \o <<DQ>>)
    \o eol

Quotes == {"none", "sqsp", "sq", "dq"}
Eols == {<<CR, LF>>, <<LF>>}

\* A line of the scene that is no named entry.
OtherLine == <<SP, SP, "m", ":", SP, "A", LF>>

\* Lines a buffer handed to rename_gameobject is made of: the name A in
\* each of the eight forms, longer names around A, an empty name and
\* another line.
InputLines ==
    {EntryLine(<<"A">>, q, e) : q \in Quotes, e \in Eols}
    \cup {EntryLine(<<"A", "B">>, "none", <<LF>>),
          EntryLine(<<"B", "A">>, "none", <<CR, LF>>),
          EntryLine(<<>>, "none", <<LF>>),
          OtherLine}

RECURSIVE Concat(_)
Concat(lines) == IF lines = <<>> THEN <<>> ELSE Head(lines) \o Concat(Tail(lines))

TextsOf(lines, n) ==
    {Concat(ls) : ls \in UNION {[1..k -> lines] : k \in 0..n}}

InputBuffers == TextsOf(InputLines, MaxLines)

OldTokens == {<<"A">>, <<"A", SP>>, <<"B">>, <<TAB>>, <<>>}
NewTokens == {<<"X">>, <<"A">>, <<SQ, "A", SQ>>, <<"A", "B">>}

\* Lines of a scene file on disk, rows of a CSV file.
DiskLines ==
    {EntryLine(<<"A">>, "none", <<LF>>),
     EntryLine(<<"A">>, "none", <<CR, LF>>),
     EntryLine(<<"B">>, "sqsp", <<CR, LF>>),
     EntryLine(<<>>, "none", <<LF>>)}

DiskTexts == TextsOf(DiskLines, MaxDocLines)

RowChoices ==
    {RowData(<<"n">>, <<"A">>, <<"B">>),
     RowData(<<"n">>, <<"B", SP>>, <<"Y">>),
     RowData(<<"n">>, <<SP>>, <<"Y">>),
     RowData(<<"n">>, <<>>, <<"Y">>),
     RowData(<<"n">>, <<"A">>, <<>>)}

CsvTables == UNION {[1..k -> RowChoices] : k \in 0..MaxRows}

\* ------------------------------------------------------------------
\* State.

VARIABLES
    phase,            \* RenameSpec: "idle", "ready", "called", "again"
    buf,              \* the buffer of the direct call
    old_name,         \* its old token
    new_name,         \* its new token
    res1,             \* result of the first call
    res2,             \* result of the second call, on res1.content
    pc,               \* Spec: where main() is
    csv_file,         \* [exists, rows]
    scene_file,       \* [state, bytes]: the scene file on disk
    orig_bytes,       \* the bytes of the scene file when the run started
    linesep,          \* os.linesep of the platform
    renaming_data,    \* self.renaming_data
    scene_content,    \* process_renaming's scene_content
    modified_content, \* process_renaming's modified_content
    success_count,    \* process_renaming's success_count
    idx,              \* rows processed so far
    calls,            \* the calls of rename_gameobject made, in order
    write_attempts,   \* times the scene file was opened for writing
    write_outcome,    \* how the last attempt ended, "none" before it
    run_result,       \* what run() returned
    exit_code         \* the argument of sys.exit, -1 before it

rename_vars == <<phase, buf, old_name, new_name, res1, res2>>
batch_vars ==
    <<pc, csv_file, scene_file, orig_bytes, linesep, renaming_data,
      scene_content, modified_content, success_count, idx, calls,
      write_attempts, write_outcome, run_result, exit_code>>
vars == <<rename_vars, batch_vars>>

NoResult == RenameResult(<<>>, FALSE, 0)

RenameIdle ==
    /\ phase = "idle"
    /\ buf = <<>>
    /\ old_name = <<>>
    /\ new_name = <<>>
    /\ res1 = NoResult
    /\ res2 = NoResult

BatchIdle ==
    /\ pc = "idle"
    /\ csv_file = [exists |-> FALSE, rows |-> <<>>]
    /\ scene_file = [state |-> "missing", bytes |-> <<>>]
    /\ orig_bytes = <<>>
    /\ linesep = <<LF>>
    /\ renaming_data = <<>>
    /\ scene_content = <<>>
    /\ modified_content = <<>>
    /\ success_count = 0
    /\ idx = 0
    /\ calls = <<>>
    /\ write_attempts = 0
    /\ write_outcome = "none"
    /\ run_result = FALSE
    /\ exit_code = -1

\* ------------------------------------------------------------------
\* RenameSpec: rename_gameobject called directly, then once more with the
\* same tokens on the buffer it returned.

RenameInit ==
    /\ phase = "ready"
    /\ buf \in InputBuffers
    /\ old_name \in OldTokens
    /\ new_name \in NewTokens
    /\ res1 = NoResult
    /\ res2 = NoResult
    /\ BatchIdle

Call ==
    /\ phase = "ready"
    /\ res1' = rename_gameobject(buf, old_name, new_name)
    /\ phase' = "called"
    /\ UNCHANGED <<buf, old_name, new_name, res2, batch_vars>>

CallAgain ==
    /\ phase = "called"
    /\ res1.modified
    /\ res2' = rename_gameobject(res1.content, old_name, new_name)
    /\ phase' = "again"
    /\ UNCHANGED <<buf, old_name, new_name, res1, batch_vars>>

RenameNext == Call \/ CallAgain

RenameSpec == RenameInit /\ [][RenameNext]_vars

\* ------------------------------------------------------------------
\* Spec: one run of main().

SceneFiles ==
    {[state |-> "ok", bytes |-> t] : t \in DiskTexts}
    \cup {[state |-> "missing", bytes |-> <<>>]}
    \cup {[state |-> "unreadable", bytes |-> EntryLine(<<"A">>, "none", <<LF>>)]}

Init ==
    /\ pc = "load"
    /\ csv_file \in {[exists |-> FALSE, rows |-> <<>>]}
                    \cup {[exists |-> TRUE, rows |-> t] : t \in CsvTables}
    /\ scene_file \in SceneFiles
    /\ orig_bytes = scene_file.bytes
    /\ linesep \in Eols
    /\ renaming_data = <<>>
    /\ scene_content = <<>>
    /\ modified_content = <<>>
    /\ success_count = 0
    /\ idx = 0
    /\ calls = <<>>
    /\ write_attempts = 0
    /\ write_outcome = "none"
    /\ run_result = FALSE
    /\ exit_code = -1
    /\ RenameIdle

\* run() up to the return of load_csv_data: a CSV file that is missing or
\* cannot be read (csv_file.exists false: both except branches return
\* False), or one without a valid row, makes run() return False at once.
LoadCsv ==
    /\ pc = "load"
    /\ renaming_data' = IF csv_file.exists THEN load_rows(csv_file.rows) ELSE <<>>
    /\ pc' = IF csv_file.exists /\ Len(renaming_data') > 0 THEN "read" ELSE "exit"
    /\ run_result' = FALSE
    /\ UNCHANGED <<csv_file, scene_file, orig_bytes, linesep, scene_content,
                   modified_content, success_count, idx, calls, write_attempts,
                   write_outcome, exit_code, rename_vars>>

\* process_renaming up to its loop: the scene file is read in text mode;
\* FileNotFoundError or any other exception returns False.
ReadScene ==
    /\ pc = "read"
    /\ IF scene_file.state = "ok"
       THEN /\ scene_content' = read_text(scene_file.bytes)
            /\ modified_content' = scene_content'
            /\ success_count' = 0
            /\ idx' = 0
            /\ pc' = "loop"
            /\ UNCHANGED run_result
       ELSE /\ run_result' = FALSE
            /\ pc' = "exit"
            /\ UNCHANGED <<scene_content, modified_content, success_count, idx>>
    /\ UNCHANGED <<csv_file, scene_file, orig_bytes, linesep, renaming_data,
                   calls, write_attempts, write_outcome,
                   exit_code, rename_vars>>

\* The record of one call of rename_gameobject.
CallRecord(before, old, new, res) ==
    [before |-> before, old |-> old, new |-> new, after |-> res.content,
     ok |-> res.modified, line_num |-> res.line_num]

\* A loop body that renames in the content as read, not in the content
\* the rows before it produced.
RenameRowUnthreaded ==
    /\ pc = "loop"
    /\ idx < Len(renaming_data)
    /\ LET data == renaming_data[idx + 1]
           res == rename_gameobject(scene_content, data.type, data.entity_id)
       IN  /\ modified_content' = res.content
           /\ success_count' = IF res.modified THEN success_count + 1 ELSE success_count
           /\ calls' = Append(calls, CallRecord(scene_content, data.type, data.entity_id, res))
    /\ idx' = idx + 1
    /\ UNCHANGED <<pc, csv_file, scene_file, orig_bytes, linesep, renaming_data,
                   scene_content, write_attempts, write_outcome, run_result, exit_code,
                   rename_vars>>

\* One pass of the loop of process_renaming: the next row's type is
\* renamed to its entity id in modified_content.
RenameRow ==
    /\ pc = "loop"
    /\ idx < Len(renaming_data)
    /\ LET data == renaming_data[idx + 1]
           res == rename_gameobject(modified_content, data.type, data.entity_id)
       IN  /\ modified_content' = res.content
           /\ success_count' = IF res.modified THEN success_count + 1 ELSE success_count
           /\ calls' = Append(calls, CallRecord(modified_content, data.type, data.entity_id, res))
    /\ idx' = idx + 1
    /\ UNCHANGED <<pc, csv_file, scene_file, orig_bytes, linesep, renaming_data,
                   scene_content, write_attempts, write_outcome, run_result, exit_code,
                   rename_vars>>

\* What opening the scene file for writing and writing to it can do.
WriteOutcomes == {"written", "open_error", "write_error"}

\* The bytes on disk after an attempt to write text.
bytes_after(outcome, bytes, text, sep) ==
    CASE outcome = "written" -> write_text(text, sep)
      [] outcome = "open_error" -> bytes
      [] outcome = "write_error" -> <<>>

\* A write-back that does not look at success_count.
WriteBackAlways ==
    /\ pc = "loop"
    /\ idx = Len(renaming_data)
    /\ \E outcome \in WriteOutcomes :
          /\ scene_file' = [scene_file EXCEPT
                !.bytes = bytes_after(outcome, @, modified_content, linesep)]
          /\ run_result' = (outcome = "written")
          /\ write_outcome' = outcome
    /\ write_attempts' = write_attempts + 1
    /\ pc' = "exit"
    /\ UNCHANGED <<csv_file, orig_bytes, linesep, renaming_data, scene_content,
                   modified_content, success_count, idx, calls, exit_code, rename_vars>>

\* A write-back that reports success although the write raised.
WriteBackIgnoringError ==
    /\ pc = "loop"
    /\ idx = Len(renaming_data)
    /\ success_count > 0
    /\ \E outcome \in WriteOutcomes :
          /\ scene_file' = [scene_file EXCEPT
                !.bytes = bytes_after(outcome, @, modified_content, linesep)]
          /\ run_result' = TRUE
          /\ write_outcome' = outcome
    /\ write_attempts' = write_attempts + 1
    /\ pc' = "exit"
    /\ UNCHANGED <<csv_file, orig_bytes, linesep, renaming_data, scene_content,
                   modified_content, success_count, idx, calls, exit_code, rename_vars>>

\* The end of process_renaming when success_count > 0: the scene file is
\* opened for writing and modified_content written in text mode; an
\* exception returns False.
WriteBack ==
    /\ pc = "loop"
    /\ idx = Len(renaming_data)
    /\ success_count > 0
    /\ \E outcome \in WriteOutcomes :
          /\ scene_file' = [scene_file EXCEPT
                !.bytes = bytes_after(outcome, @, modified_content, linesep)]
          /\ run_result' = (outcome = "written")
          /\ write_outcome' = outcome
    /\ write_attempts' = write_attempts + 1
    /\ pc' = "exit"
    /\ UNCHANGED <<csv_file, orig_bytes, linesep, renaming_data, scene_content,
                   modified_content, success_count, idx, calls, exit_code, rename_vars>>

\* The end of process_renaming when nothing was renamed: return False.
NoWrite ==
    /\ pc = "loop"
    /\ idx = Len(renaming_data)
    /\ success_count = 0
    /\ run_result' = FALSE
    /\ pc' = "exit"
    /\ UNCHANGED <<csv_file, scene_file, orig_bytes, linesep, renaming_data,
                   scene_content, modified_content, success_count, idx, calls,
                   write_attempts, write_outcome, exit_code, rename_vars>>

\* main() after run(): sys.exit(0 if success else 1).
Exit ==
    /\ pc = "exit"
    /\ exit_code' = IF run_result THEN 0 ELSE 1
    /\ pc' = "done"
    /\ UNCHANGED <<csv_file, scene_file, orig_bytes, linesep, renaming_data,
                   scene_content, modified_content, success_count, idx, calls,
                   write_attempts, write_outcome, run_result, rename_vars>>

Next == LoadCsv \/ ReadScene \/ RenameRow \/ WriteBack \/ NoWrite \/ Exit

Spec == Init /\ [][Next]_vars

\* ------------------------------------------------------------------
\* Vocabulary of the properties.

\* The eight known forms of a named-entry line, written out independently
\* of the renamer's pattern lists: quoting and line ending of form i.
FormQuote == <<"none", "none", "sqsp", "sqsp", "sq", "sq", "dq", "dq">>
FormEol == <<<<CR, LF>>, <<LF>>, <<CR, LF>>, <<LF>>, <<CR, LF>>, <<LF>>, <<CR, LF>>, <<LF>>>>
KnownForm(i, token) == EntryLine(token, FormQuote[i], FormEol[i])

\* The forms of the trimmed token that occur in a text.
FormsPresent(text, token) ==
    {i \in 1..8 : Contains(text, KnownForm(i, strip(token)))}

MinOf(S) == CHOOSE i \in S : \A j \in S : i <= j

\* result is text with every occurrence of p replaced by q and every
\* other character kept, stated position by position.
ReplacedEverywhere(text, result, p, q) ==
    LET occ == Occ(text, p)
        d == Len(q) - Len(p)
        before(k) == Cardinality({o \in occ : o < k})
        covered(k) == \E o \in occ : o <= k /\ k < o + Len(p)
    IN  /\ Len(result) = Len(text) + Cardinality(occ) * d
        /\ \A o \in occ :
              SubSeq(result, o + before(o) * d, o + before(o) * d + Len(q) - 1) = q
        /\ \A k \in 1..Len(text) :
              ~covered(k) => result[k + before(k) * d] = text[k]

\* text with the len characters from position o replaced by q.
Splice(text, o, len, q) ==
    SubSeq(text, 1, o - 1) \o q \o SubSeq(text, o + len, Len(text))

\* The names of the named-entry lines of a text: what stands between the
\* key at the start of a line and the end of that line, quotes removed.
LineStarts(text) ==
    {k \in Occ(text, NAME_KEY) : k = 1 \/ text[k - 1] = LF}

LineEnd(text, k) == MinOf({j \in k..Len(text) : text[j] = LF})

Unquote(v) ==
    IF Len(v) >= 2 /\ v[1] = v[Len(v)] /\ v[1] \in {SQ, DQ}
    THEN SubSeq(v, 2, Len(v) - 1)
    ELSE v

ValueAt(text, k) ==
    LET e == LineEnd(text, k)
        last == IF text[e - 1] = CR THEN e - 2 ELSE e - 1
    IN  SubSeq(text, k + Len(NAME_KEY), last)

Names(text) ==
    {Unquote(ValueAt(text, k)) :
        k \in {j \in LineStarts(text) : \E e \in j..Len(text) : text[e] = LF}}

ProperSubstring(t, n) == t # <<>> /\ t # n /\ Contains(n, t)

\* A token without line breaks and without the key text.
KEY_TEXT == <<"m", "_", "N", "a", "m", "e", ":">>
PlainToken(t) ==
    /\ \A k \in 1..Len(t) : t[k] \notin {CR, LF}
    /\ ~Contains(t, KEY_TEXT)

Called == phase \in {"called", "again"}

\* ------------------------------------------------------------------
\* Properties of rename_gameobject (RenameSpec).

\* C1, as stated: for every token that occurs nowhere in the buffer the
\* call returns the buffer unchanged and the flag false.  (Stated for the
\* tokens that are not blank, so that a violation does not rest on what
\* the renamer does with a blank token, which is C8's matter.)
C1_AbsentTokenAsStated ==
    (Called /\ strip(old_name) # <<>> /\ ~Contains(buf, old_name))
        => (res1.content = buf /\ ~res1.modified)

\* C1, amended: for every token whose trimmed form occurs nowhere in the
\* buffer the call returns the buffer unchanged and the flag false.
C1_AbsentTrimmedToken ==
    (Called /\ ~Contains(buf, strip(old_name)))
        => (res1.content = buf /\ ~res1.modified /\ res1.line_num = 0)

C1_Witness ==
    /\ Called
    /\ old_name = <<"B">>
    /\ ~Contains(buf, strip(old_name))
    /\ Cardinality(LineStarts(buf)) = 2
    /\ res1.content = buf

\* C2: when the buffer holds the trimmed token in exactly one of the eight
\* known forms, the call returns true, every occurrence of that form is
\* replaced by the same form written with the new token, and all other
\* content is unchanged.
C2_SingleFormRewritten ==
    Called =>
        \A i \in 1..8 :
            FormsPresent(buf, old_name) = {i} =>
                /\ res1.modified
                /\ ReplacedEverywhere(buf, res1.content,
                                      KnownForm(i, strip(old_name)),
                                      KnownForm(i, new_name))

C2_Witness ==
    /\ Called
    /\ FormsPresent(buf, old_name) = {3}
    /\ new_name = <<"X">>
    /\ Contains(buf, OtherLine)
    /\ Contains(res1.content, KnownForm(3, <<"X">>))
    /\ Contains(res1.content, OtherLine)

\* C3, as stated: after a call that returned true, a second call with the
\* same tokens on the returned buffer returns false.  (Stated for a new
\* token that does not write the old token's line again, so that a
\* violation does not rest on renaming a name to itself.)
C3_SecondCallFailsAsStated ==
    (/\ phase = "again"
     /\ \A i, j \in 1..8 : KnownForm(i, new_name) # KnownForm(j, strip(old_name)))
        => ~res2.modified

\* C3, amended: the second call returns false when the tokens hold no line
\* break and no key text, the buffer held the trimmed old token in exactly
\* one of the eight forms, and that form written with the new token is
\* not itself one of the eight forms of the old token.
C3_SecondCallFails ==
    (/\ phase = "again"
     /\ PlainToken(strip(old_name))
     /\ PlainToken(new_name)
     /\ \E i \in 1..8 :
           /\ FormsPresent(buf, old_name) = {i}
           /\ \A j \in 1..8 : KnownForm(i, new_name) # KnownForm(j, strip(old_name)))
        => ~res2.modified

C3_Witness ==
    /\ phase = "again"
    /\ Cardinality(FormsPresent(buf, old_name)) = 1
    /\ Cardinality(Occ(buf, KnownForm(MinOf(FormsPresent(buf, old_name)), strip(old_name)))) = 2
    /\ new_name = <<"A", "B">>
    /\ ~res2.modified

\* C4, as stated: one call rewrites at most one occurrence: the result is
\* the buffer, or the buffer with one occurrence of one form replaced.
\* (Stated for the tokens that are not blank, as C1 is.)
C4_AtMostOneOccurrenceAsStated ==
    (Called /\ strip(old_name) # <<>>) =>
        \/ res1.content = buf
        \/ \E i \in 1..8 :
              \E o \in Occ(buf, KnownForm(i, strip(old_name))) :
                 res1.content =
                    Splice(buf, o, Len(KnownForm(i, strip(old_name))),
                           KnownForm(i, new_name))

\* C4, amended: one call rewrites the occurrences of at most one of the
\* eight forms, the first in the list that occurs in the buffer, and it
\* rewrites every occurrence of that form; all other content, occurrences
\* of the token in other forms included, is left as it was.
C4_AtMostOneForm ==
    Called =>
        IF FormsPresent(buf, old_name) = {}
        THEN res1.content = buf /\ ~res1.modified
        ELSE LET i == MinOf(FormsPresent(buf, old_name))
             IN  /\ res1.modified
                 /\ ReplacedEverywhere(buf, res1.content,
                                       KnownForm(i, strip(old_name)),
                                       KnownForm(i, new_name))
                 /\ \A j \in FormsPresent(buf, old_name) \ {i} :
                       KnownForm(i, new_name) # KnownForm(j, strip(old_name))
                          => Cardinality(Occ(res1.content, KnownForm(j, strip(old_name))))
                             = Cardinality(Occ(buf, KnownForm(j, strip(old_name))))

C4_Witness ==
    /\ Called
    /\ new_name = <<"X">>
    /\ \E i \in 1..8 :
          /\ Cardinality(Occ(buf, KnownForm(i, strip(old_name)))) = 2
          /\ Cardinality(Occ(res1.content, KnownForm(i, new_name))) = 2
          /\ ~Contains(res1.content, KnownForm(i, strip(old_name)))

\* C10, as stated: a token that is a proper substring of a longer name of
\* the buffer, and is itself no name of the buffer, still matches.
C10_SubstringMatchesAsStated ==
    (/\ Called
     /\ \E n \in Names(buf) : ProperSubstring(strip(old_name), n)
     /\ strip(old_name) \notin Names(buf))
        => res1.modified

\* C10, amended: matching is on the whole named-entry line: a token that
\* is a proper substring of a longer name of the buffer does not match
\* when none of the eight line forms of the token occurs in the buffer;
\* the call returns false and the buffer unchanged.
C10_SubstringDoesNotMatch ==
    (/\ Called
     /\ \E n \in Names(buf) : ProperSubstring(strip(old_name), n)
     /\ FormsPresent(buf, old_name) = {})
        => (~res1.modified /\ res1.content = buf)

C10_Witness ==
    /\ Called
    /\ old_name = <<"A">>
    /\ <<"A", "B">> \in Names(buf)
    /\ <<"B", "A">> \in Names(buf)
    /\ FormsPresent(buf, old_name) = {}
    /\ ~res1.modified

\* ------------------------------------------------------------------
\* Properties of a run of main() (Spec).

Finished == pc \in {"exit", "done"}

\* The rows whose call returned true.
Matched == {k \in 1..Len(calls) : calls[k].ok}

\* How line n of a text ends: "CRLF", "LF", or "none" when the text has
\* no line n that ends in a line break.
LineEnding(text, n) ==
    LET lfs == {k \in 1..Len(text) : text[k] = LF}
        nth == {k \in lfs : Cardinality({j \in lfs : j < k}) = n - 1}
    IN  IF nth = {} THEN "none"
        ELSE IF MinOf(nth) > 1 /\ text[MinOf(nth) - 1] = CR THEN "CRLF" ELSE "LF"

\* C5: the scene file is opened for writing at most once, after the last
\* row, and exactly when success_count > 0; on every other path the file
\* is untouched and the run returns failure.
C5_WriteOnceIffMatched ==
    /\ write_attempts <= 1
    /\ write_attempts = 1 => (Finished /\ idx = Len(renaming_data)
                              /\ Len(calls) = Len(renaming_data))
    /\ Finished => (write_attempts = 1 <=> success_count > 0)
    /\ write_attempts = 0 => scene_file.bytes = orig_bytes
    /\ (Finished /\ success_count = 0) => ~run_result
    /\ (pc = "done" /\ success_count = 0) => exit_code = 1

C5_Witness ==
    /\ pc = "done"
    /\ write_attempts = 1
    /\ Len(renaming_data) = 2
    /\ success_count = 1
    /\ idx = 2
    /\ scene_file.bytes # orig_bytes

\* No loaded row has a blank search token: the runs on which what the
\* renamer does with a blank token (C8) plays no part.
NoBlankRow == \A k \in 1..Len(renaming_data) : renaming_data[k].type # <<>>

C7_LineEndingPreserved ==
    NoBlankRow => \A k \in Matched :
        /\ LineEnding(calls[k].after, calls[k].line_num)
           = LineEnding(calls[k].before, calls[k].line_num)
        /\ (pc = "done" /\ write_outcome = "written")
              => LineEnding(scene_file.bytes, calls[k].line_num)
                 = LineEnding(orig_bytes, calls[k].line_num)

\* C8: a search token that is blank after trimming never causes a
\* rewrite: no call is made with it, or the call leaves the buffer as it
\* was and does not report success.
C8_BlankTokenNeverRewrites ==
    \A k \in 1..Len(calls) :
        strip(calls[k].old) = <<>>
            => (~calls[k].ok /\ calls[k].after = calls[k].before)

====
